---- MODULE Spec2Model ----
(***************************************************************************)
(* Model of satstack's status aggregator (httpd/svc Service.GetStatus),    *)
(* import coordinator (bus.ImportAccounts, descriptors) and sync worker    *)
(* (bus.Worker: the orchestrator goroutine, with waitForIBD and the supply *)
(* audit runTheNumbers, and the progress watchdog goroutine; the two share *)
(* importDone and Bus.IsPendingScan).                                      *)
(*                                                                         *)
(* Bus.IsPendingScan is a plain bool written by the orchestrator and read  *)
(* by GetStatus without synchronisation.  It is a single byte-sized        *)
(* location, every write to it is separated from the next by RPC calls     *)
(* (system calls, mutexes), and every GetStatus call loads it afresh, so   *)
(* the outcomes a build produces are those of an atomic register: a read   *)
(* returns the value of the latest write in the interleaving.              *)
(***************************************************************************)
EXTENDS Integers, Sequences, FiniteSets, TLC

\* ------------------------------------------------------------------ bounds
MaxAccounts == 2      \* longest account list handed to ImportAccounts
MaxHeight == 2        \* highest header height the node reports
MaxCalls == 2         \* ImportAccounts calls made by the import driver
MaxEpochs == 3        \* halving epochs completed at the highest audited tip

\* --------------------------------------------------------------- constants
defaultAccountDepth == 100   \* bus.defaultAccountDepth
NoCheckpoint == 0 - 1        \* getPreviousRescanBlock's error value
halvingBlocks == 210000      \* runTheNumbers' halvingBlocks
subsidy == 50                \* runTheNumbers' subsidy before the first halving

NIL == "nil"                 \* a nil slice / nil pointer / nil error

\* ---------------------------------------------------------------- strings
\* Descriptor strings are sequences of characters; "#" separates the
\* checksum from the body.
Chars == {"a", "b", "#", "k"}

\* strings.Split(s, "#")[0]: everything before the first "#".
RECURSIVE SplitHead(_)
SplitHead(s) ==
  IF s = <<>> \/ Head(s) = "#" THEN <<>>
  ELSE <<Head(s)>> \o SplitHead(Tail(s))

\* GetCanonicalDescriptor (getdescriptorinfo): the body followed by its
\* checksum.
GetCanonicalDescriptor(desc) == desc \o <<"#", "k">>

\* DeriveAddress: the address a descriptor yields at index depth.
DeriveAddress(value, depth) == [desc |-> value, index |-> depth]

\* ------------------------------------------------------------- test data
\* An optional (pointer) field is a record: isNil, or the value it points to.
NilPtr == [isNil |-> TRUE, val |-> 0]
Ptr(v) == [isNil |-> FALSE, val |-> v]

AccountA == [External |-> <<"a">>, Internal |-> <<"a", "a">>,
             Depth |-> NilPtr, Birthday |-> NilPtr]
AccountB == [External |-> <<"b", "#", "k">>, Internal |-> <<"b", "b", "#", "k">>,
             Depth |-> Ptr(50), Birthday |-> Ptr(7)]
AccountPool == {AccountA, AccountB}

\* A []config.Account: the nil slice, or a slice of length 0..MaxAccounts.
SeqsUpTo(S, n) == UNION {[1..k -> S] : k \in 0..n}
NilAccounts == [isNil |-> TRUE, items |-> <<>>]
AccountLists ==
  {NilAccounts} \cup {[isNil |-> FALSE, items |-> l] : l \in SeqsUpTo(AccountPool, MaxAccounts)}

\* --------------------------------------------------------- descriptors()
\* descriptors(client, account): the two canonical descriptors of an
\* account, or an error when canonicalisation of the k-th raw descriptor
\* fails (canonFail = the set of raw descriptor bodies the node rejects).
AccountDepth(account) ==
  IF account.Depth.isNil THEN defaultAccountDepth ELSE account.Depth.val

AccountAge(account) ==
  IF account.Birthday.isNil THEN [genesis |-> TRUE, unix |-> 0]
  ELSE [genesis |-> FALSE, unix |-> account.Birthday.val]

RawDescs(account) ==
  <<SplitHead(account.External), SplitHead(account.Internal)>>

\* Variant: a failing internal descriptor is skipped instead of reported.
C4_PartialDescriptors(account, canonFail) ==
  LET raw == RawDescs(account)
      mk(d) == [Value |-> GetCanonicalDescriptor(d),
                Depth |-> AccountDepth(account),
                Age |-> AccountAge(account)]
  IN IF raw[1] \in canonFail THEN [err |-> "ErrInvalidDescriptor", ret |-> <<>>, calls |-> 1]
     ELSE IF raw[2] \in canonFail THEN [err |-> NIL, ret |-> <<mk(raw[1])>>, calls |-> 2]
     ELSE [err |-> NIL, ret |-> <<mk(raw[1]), mk(raw[2])>>, calls |-> 2]

descriptors(account, canonFail) ==
  LET raw == RawDescs(account)
      mk(d) == [Value |-> GetCanonicalDescriptor(d),
                Depth |-> AccountDepth(account),
                Age |-> AccountAge(account)]
  IN IF raw[1] \in canonFail THEN [err |-> "ErrInvalidDescriptor", ret |-> <<>>, calls |-> 1]
     ELSE IF raw[2] \in canonFail THEN [err |-> "ErrInvalidDescriptor", ret |-> <<>>, calls |-> 2]
     ELSE [err |-> NIL, ret |-> <<mk(raw[1]), mk(raw[2])>>, calls |-> 2]

\* ------------------------------------------------------- ImportAccounts
\* The faults the node can show during one call: at most the first one is
\* ever observed, because the call returns at its first error.
NoFault == [kind |-> "none", at |-> <<>>]
RawBodies == UNION {{RawDescs(a)[1], RawDescs(a)[2]} : a \in AccountPool}
PoolDescriptors ==
  UNION {{descriptors(a, {}).ret[1], descriptors(a, {}).ret[2]} : a \in AccountPool}
Faults ==
  {NoFault, [kind |-> "client", at |-> <<>>]}
  \cup {[kind |-> "canon", at |-> d] : d \in RawBodies}
  \cup {[kind |-> "derive", at |-> d.Value] : d \in PoolDescriptors}
  \cup {[kind |-> "info", at |-> d.Value] : d \in PoolDescriptors}
  \cup {[kind |-> "bulk", at |-> <<>>]}

FaultSet(fault, kind) == IF fault.kind = kind THEN {fault.at} ELSE {}

\* Lines 289-297: resolve every account, appending to allDescriptors; the
\* first resolution error ends the call.
RECURSIVE ResolveAll(_, _, _, _)
ResolveAll(accounts, canonFail, acc, calls) ==
  IF accounts = <<>> THEN [err |-> NIL, all |-> acc, calls |-> calls]
  ELSE LET r == descriptors(Head(accounts), canonFail)
       IN IF r.err # NIL
            THEN [err |-> r.err, all |-> acc, calls |-> calls + r.calls]
            ELSE ResolveAll(Tail(accounts), canonFail, acc \o r.ret, calls + r.calls)

\* Variant: the watch-only test is inverted.
C3_KeepWatched(isWatchOnly) == isWatchOnly

\* Line 312: a descriptor is kept when its address is not watch-only.
KeepDescriptor(isWatchOnly) == ~isWatchOnly

\* Lines 299-315: derive the address of each descriptor and ask the node
\* whether it is watch-only; the first failing call ends the loop.
\* reports collects the IsWatchOnly answers of the node, in order.
RECURSIVE FilterNew(_, _, _, _, _, _, _)
FilterNew(all, deriveFail, infoFail, watch, acc, reports, calls) ==
  IF all = <<>>
    THEN [err |-> NIL, toImport |-> acc, reports |-> reports, calls |-> calls]
  ELSE LET d == Head(all)
           address == DeriveAddress(d.Value, d.Depth)
       IN IF d.Value \in deriveFail
            THEN [err |-> "ErrDeriveAddress", toImport |-> acc, reports |-> reports,
                  calls |-> calls + 1]
          ELSE IF d.Value \in infoFail
            THEN [err |-> "ErrAddressInfo", toImport |-> acc, reports |-> reports,
                  calls |-> calls + 2]
          ELSE FilterNew(Tail(all), deriveFail, infoFail, watch,
                         IF KeepDescriptor(address \in watch) THEN Append(acc, d) ELSE acc,
                         Append(reports, address \in watch), calls + 2)

\* Line 278: the zero-configuration test.
NoAccounts(accounts) == accounts.isNil

\* Lines 275-324 up to the call of ImportDescriptors: the state of the call
\* when it either has returned (pc = "ret") or has its single bulk request
\* in flight (pc = "bulk").
ImportAccountsEntry(accounts, fault, watch) ==
  LET base == [pc |-> "ret", accounts |-> accounts, err |-> NIL, all |-> <<>>,
               toImport |-> <<>>, bulk |-> 0, clients |-> 0, nodeCalls |-> 0,
               filtered |-> FALSE, reports |-> <<>>]
  IN IF NoAccounts(accounts) THEN base
     ELSE IF fault.kind = "client"
       THEN [base EXCEPT !.err = "ErrClient", !.clients = 1]
     ELSE LET r == ResolveAll(accounts.items, FaultSet(fault, "canon"), <<>>, 0)
          IN IF r.err # NIL
               THEN [base EXCEPT !.err = r.err, !.clients = 1, !.nodeCalls = r.calls]
             ELSE LET f == FilterNew(r.all, FaultSet(fault, "derive"),
                                     FaultSet(fault, "info"), watch, <<>>, <<>>, r.calls)
                  IN IF f.err # NIL
                       THEN [base EXCEPT !.err = f.err, !.clients = 1, !.all = r.all,
                                         !.nodeCalls = f.calls, !.reports = f.reports]
                     ELSE IF Len(f.toImport) = 0
                       THEN [base EXCEPT !.clients = 1, !.all = r.all,
                                         !.nodeCalls = f.calls, !.filtered = TRUE,
                                         !.reports = f.reports]
                     ELSE [base EXCEPT !.pc = "bulk", !.clients = 1, !.all = r.all,
                                       !.toImport = f.toImport, !.bulk = 1,
                                       !.nodeCalls = f.calls + 1, !.filtered = TRUE,
                                       !.reports = f.reports]

\* Line 324: ImportDescriptors returns; its error is the call's error.
ImportAccountsReturn(frame, fault) ==
  [frame EXCEPT !.pc = "ret",
                !.err = IF fault.kind = "bulk" THEN "ErrImportDescriptors" ELSE NIL]

\* The node after a bulk import: the imported descriptors' addresses are
\* watched from then on.
Addresses(ds) == {DeriveAddress(ds[i].Value, ds[i].Depth) : i \in 1..Len(ds)}
PoolAddresses == {DeriveAddress(d.Value, d.Depth) : d \in PoolDescriptors}
NodeAfterImport(watch, frame, fault) ==
  IF fault.kind = "bulk" THEN watch ELSE watch \cup Addresses(frame.toImport)

\* ------------------------------------------------------------- GetStatus
\* Variant: the fraction is reported unscaled.
C2_NoScaling(v) == v

\* Fixed-point numbers: the value v stands for v/100.
Times100(v) == v * 100

\* What one GetStatus call can meet on the node: at most one failing call
\* (no call is made after it).
StatusFaults == {"none", "client", "rpc", "decode", "wallet"}

NoInfo == [Blocks |-> 0, Headers |-> 0, VerificationProgress |-> 0]
NoScan == [scanning |-> FALSE, Progress |-> 0]

\* The reply of one call, with what the call went through to produce it:
\* the error it met (err), the chain snapshot it decoded (info) and the
\* wallet scan state it read (scan), each empty when the call never got
\* that far.
Reply(st, sync, scan, err, seenInfo, seenScan) ==
  [Status |-> st, SyncProgress |-> sync, ScanProgress |-> scan,
   err |-> err, info |-> seenInfo, scan |-> seenScan]

\* Variant: the flag test is missing.
C1_NeverPending(flag) == FALSE

\* Line 65: case 1 is taken when the flag is set.
PendingCase(flag) == flag

\* Line 112: case 4 is taken while the node is catching up.
SyncingCase(info) == info.Blocks # info.Headers

\* Lines 53-140.
GetStatus(flag, fault, info, scan) ==
  IF PendingCase(flag) THEN Reply("PendingScan", NilPtr, NilPtr, "none", NoInfo, NoScan)
  ELSE IF fault = "client"
    THEN Reply("NodeDisconnected", NilPtr, NilPtr, "client", NoInfo, NoScan)
  ELSE IF fault = "rpc"
    THEN Reply("NodeDisconnected", NilPtr, NilPtr, "rpc", NoInfo, NoScan)
  ELSE IF fault = "decode"
    THEN Reply("NodeDisconnected", NilPtr, NilPtr, "decode", NoInfo, NoScan)
  ELSE IF SyncingCase(info)
    THEN Reply("Syncing", Ptr(Times100(info.VerificationProgress)), NilPtr,
               "none", info, NoScan)
  ELSE IF fault = "wallet"
    THEN Reply("NodeDisconnected", NilPtr, NilPtr, "wallet", info, NoScan)
  ELSE IF scan.scanning
    THEN Reply("Scanning", NilPtr, Ptr(Times100(scan.Progress)), "none", info, scan)
  ELSE Reply("Ready", NilPtr, NilPtr, "none", info, scan)

\* ---------------------------------------------------------- runTheNumbers
\* Amounts are float64 coins in the code.  Every value runTheNumbers
\* forms up to MaxEpochs halvings is a multiple of 2^-MaxEpochs coin below
\* 2^53, which float64 holds exactly; amounts are counted in that unit.
CoinUnit == 2 ^ MaxEpochs

\* Variant: the subsidy is not halved.
C12_NoHalving(s) == s

\* Line 402: subsidy /= 2.
Halve(s) == s \div 2

\* Lines 398-403: the loop over the completed epochs, from i with n
\* epochs completed; its result is i, supply and subsidy after the loop.
RECURSIVE SupplyLoop(_, _, _, _)
SupplyLoop(i, n, supply, sub) ==
  IF i < n THEN SupplyLoop(i + 1, n, supply + halvingBlocks * sub, Halve(sub))
  ELSE [i |-> i, supply |-> supply, subsidy |-> sub]

\* Lines 394-405: the supply expected at Height.
expectedSupply(Height) ==
  LET l == SupplyLoop(0, Height \div halvingBlocks, 0, subsidy * CoinUnit)
  IN l.supply + l.subsidy * (Height - halvingBlocks * l.i)

\* btcutil.NewAmount (line 407): fails on NaN and on the infinities only,
\* which a finite sum of finite terms is not; rounding to the satoshi
\* leaves a multiple of 2^-MaxEpochs coin as it is.
NewAmount(f) == [err |-> NIL, val |-> f]

\* What the worker's log holds of the audit: the error it returned, or the
\* "#RunTheNumbers successful" entry.
NoAudit == [err |-> NIL, logged |-> FALSE, height |-> 0, expectedSupply |-> 0,
            actualSupply |-> 0]

\* Lines 384-420: the error returned and the log entry written, ok telling
\* whether GetTxOutSetInfo succeeded and info being its result.
runTheNumbers(ok, info) ==
  IF ~ok THEN [err |-> "rpc", log |-> [NoAudit EXCEPT !.err = "rpc"]]
  ELSE LET supplyBTC == NewAmount(expectedSupply(info.Height))
       IN IF supplyBTC.err # NIL
            THEN [err |-> supplyBTC.err, log |-> [NoAudit EXCEPT !.err = supplyBTC.err]]
            ELSE [err |-> NIL,
                  log |-> [err |-> NIL, logged |-> TRUE, height |-> info.Height,
                           expectedSupply |-> supplyBTC.val,
                           actualSupply |-> info.TotalAmount]]

\* ------------------------------------------------------------------ state
VARIABLES
  \* the node
  watchOnly,       \* addresses the wallet watches
  nodeScanning,    \* a wallet scan is running on the node
  blocks, headers, \* chain snapshot
  totalAmount,     \* total_amount of gettxoutsetinfo
  \* the rescan checkpoint file (lss_rescan.json)
  checkpoint,
  \* Worker's arguments and the package variable isNewWallet
  cfg,
  \* Bus
  IsPendingScan,
  \* Worker: orchestrator goroutine, watchdog goroutine, importDone
  opc, wpc, startHeight, importDone, interrupt, oerr, wexit,
  \* the ImportAccounts call in progress or last returned
  ia,
  \* what has been observed so far
  lastStatus, decision, rescanReq, ckWrites, pollsAfterSend, prevCall, nCalls,
  snapshot,        \* outcome of waitForIBD's latest getblockchaininfo
  audit,           \* the "#RunTheNumbers successful" log entry
  scanLog          \* scan check, abort and the node's state at the blocking request

nodeVars == <<watchOnly, nodeScanning, blocks, headers, totalAmount>>
logVars == <<snapshot, audit, scanLog>>
workerVars == <<opc, wpc, startHeight, importDone, interrupt, oerr, wexit,
                decision, rescanReq, ckWrites, pollsAfterSend>>
driverVars == <<prevCall, nCalls>>
vars == <<nodeVars, checkpoint, cfg, IsPendingScan, workerVars, ia, lastStatus,
          driverVars, logVars>>

Heights == 0..MaxHeight
ScanProgressValues == {25, 50}

\* The node's verificationprogress, as a fixed-point fraction.
VerificationProgress(b, h) == IF h = 0 THEN 100 ELSE (b * 100) \div h

IdleFrame == [pc |-> "idle", accounts |-> NilAccounts, err |-> NIL, all |-> <<>>,
              toImport |-> <<>>, bulk |-> 0, clients |-> 0, nodeCalls |-> 0,
              filtered |-> FALSE, reports |-> <<>>]
NoCall == [pc |-> "idle", accounts |-> NilAccounts, err |-> NIL, bulk |-> 0]
NoStatus == [called |-> FALSE, flag |-> FALSE,
             out |-> Reply("", NilPtr, NilPtr, "none", NoInfo, NoScan)]
NoDecision == [made |-> FALSE, readErr |-> FALSE, file |-> [exists |-> FALSE, LastBlock |-> 0]]
NoScanLog == [check |-> "none", abort |-> "none", atRequest |-> "none"]

\* The coins the consensus rules have issued up to height h: 50 for each
\* block of the first 210000, half as much for each block of every
\* following 210000.
Issued(h) ==
  LET e == h \div 210000
  IN 210000 * 100 * (CoinUnit - CoinUnit \div (2 ^ e))
       + (h % 210000) * ((50 * CoinUnit) \div (2 ^ e))

\* What the node's UTXO set can add up to at height h: the coins issued,
\* or one coin more on a node with an inflation fault.
TotalAmounts(h) == {Issued(h), Issued(h) + CoinUnit}

\* The states the node, the checkpoint file and the configuration can be
\* in when the process starts.
InitEnv ==
  /\ nodeScanning \in BOOLEAN
  /\ headers = MaxHeight
  /\ blocks \in {MaxHeight - 1, MaxHeight}
  /\ checkpoint \in {[exists |-> FALSE, LastBlock |-> 0]}
                   \cup {[exists |-> TRUE, LastBlock |-> h] : h \in {NoCheckpoint} \cup Heights}

InitProgram ==
  /\ snapshot = "none" /\ audit = NoAudit /\ scanLog = NoScanLog
  /\ IsPendingScan = FALSE
  /\ opc = "ibd" /\ wpc = "select"
  /\ startHeight = 0
  /\ importDone = [closed |-> FALSE, sent |-> 0]
  /\ interrupt = FALSE /\ oerr = NIL /\ wexit = NIL
  /\ ia = IdleFrame
  /\ lastStatus = NoStatus /\ decision = NoDecision
  /\ rescanReq = <<>> /\ ckWrites = 0 /\ pollsAfterSend = 0
  /\ prevCall = NoCall /\ nCalls = 0

WorkerAccountLists ==
  {NilAccounts, [isNil |-> FALSE, items |-> <<>>], [isNil |-> FALSE, items |-> <<AccountA>>]}

Init ==
  /\ InitEnv /\ InitProgram
  /\ watchOnly = {}
  /\ totalAmount = Issued(headers)
  /\ cfg \in [circulationCheck : BOOLEAN, forceImportDesc : BOOLEAN,
               isNewWallet : BOOLEAN, Accounts : WorkerAccountLists]

\* --------------------------------------------------------------- the node
\* The node validates one more block.
NodeAdvance ==
  /\ blocks < headers
  /\ blocks' = blocks + 1
  /\ UNCHANGED <<watchOnly, nodeScanning, headers, totalAmount, checkpoint, cfg,
                 IsPendingScan,
                 workerVars, ia, lastStatus, driverVars, logVars>>

\* A blocking request of the worker (bulk import, range rescan) is being
\* served by the node.
ScanRequestInFlight == ia.pc = "bulk" \/ opc = "rescanning"

\* A scan left running by an earlier process run comes to its end.
ScanStops ==
  /\ nodeScanning /\ ~ScanRequestInFlight
  /\ nodeScanning' = FALSE
  /\ UNCHANGED <<watchOnly, blocks, headers, totalAmount, checkpoint, cfg, IsPendingScan,
                 workerVars, ia, lastStatus, driverVars, logVars>>

\* ------------------------------------------------- Service.GetStatus call
\* A send on a closed channel panics and the process dies with it.
Running == opc # "panicked"

\* What getwalletinfo reports in its scanning field.
WalletScanStates ==
  IF nodeScanning THEN {[scanning |-> TRUE, Progress |-> p] : p \in ScanProgressValues}
  ELSE {NoScan}

GetStatusCall ==
  /\ Running
  /\ \E fault \in StatusFaults, scan \in WalletScanStates :
       LET info == [Blocks |-> blocks, Headers |-> headers,
                    VerificationProgress |-> VerificationProgress(blocks, headers)]
       IN lastStatus' = [called |-> TRUE, flag |-> IsPendingScan,
                         out |-> GetStatus(IsPendingScan, fault, info, scan)]
  /\ UNCHANGED <<nodeVars, checkpoint, cfg, IsPendingScan, workerVars, ia, driverVars,
                 logVars>>

\* ------------------------------------------------ Worker: the orchestrator
\* Variant: no signal is sent.
C7_NoSignal(sent) == sent

\* Lines 426-445.  os.FindProcess never fails on Unix and a process can
\* always signal itself, so the signal is sent.
sendInterruptSignal(sent) == TRUE

\* "sendInterruptSignal(); return" after the error named cause.
Fail(cause) ==
  /\ opc' = "failed"
  /\ oerr' = cause
  /\ interrupt' = sendInterruptSignal(interrupt)

\* Variant: the loop is left on the first snapshot.
C14_LeavesAtOnce(info) == FALSE

\* Line 229: the download is still going on.
StillDownloading(info) == info.Blocks # info.Headers

\* Lines 208-249 and 448-456: one iteration of waitForIBD's loop.
WaitForIBD ==
  /\ Running /\ opc = "ibd"
  /\ \E fault \in {"none", "rpc", "decode"} :
       IF fault # "none" THEN Fail("ibd") /\ snapshot' = fault
       ELSE LET info == [Blocks |-> blocks, Headers |-> headers]
            IN /\ snapshot' = IF info.Blocks = info.Headers THEN "equal" ELSE "behind"
               /\ opc' = IF StillDownloading(info) THEN "ibd"
                         ELSE IF cfg.circulationCheck THEN "audit" ELSE "decide"
               /\ UNCHANGED <<oerr, interrupt>>
  /\ UNCHANGED <<nodeVars, checkpoint, cfg, IsPendingScan, wpc, startHeight, importDone,
                 wexit, decision, rescanReq, ckWrites, pollsAfterSend, ia, lastStatus,
                 driverVars, audit, scanLog>>

\* Lines 458-461: the flag is set and gettxoutsetinfo is sent.
AuditBegin ==
  /\ Running /\ opc = "audit"
  /\ IsPendingScan' = TRUE
  /\ opc' = "auditing"
  /\ UNCHANGED <<nodeVars, checkpoint, cfg, wpc, startHeight, importDone, interrupt, oerr,
                 wexit, decision, rescanReq, ckWrites, pollsAfterSend, ia, lastStatus,
                 driverVars, logVars>>

\* Variant: the flag is left set when the audit returned normally.
C11_FlagKept(err) ==
  IF err # NIL THEN Fail("audit") /\ UNCHANGED IsPendingScan
  ELSE /\ opc' = "decide"
       /\ UNCHANGED <<IsPendingScan, oerr, interrupt>>

\* Lines 461-471 once runTheNumbers has returned err.
AfterAudit(err) ==
  IF err # NIL THEN Fail("audit") /\ UNCHANGED IsPendingScan
  ELSE /\ IsPendingScan' = FALSE
       /\ opc' = "decide"
       /\ UNCHANGED <<oerr, interrupt>>

\* Lines 461-471: runTheNumbers runs on the node's UTXO set and returns.
AuditEnd ==
  /\ Running /\ opc = "auditing"
  /\ \E ok \in BOOLEAN :
       LET r == runTheNumbers(ok, [Height |-> blocks, TotalAmount |-> totalAmount])
       IN /\ audit' = r.log
          /\ AfterAudit(r.err)
  /\ UNCHANGED <<nodeVars, checkpoint, cfg, wpc, startHeight, importDone,
                 wexit, decision, rescanReq, ckWrites, pollsAfterSend, ia, lastStatus,
                 driverVars, snapshot, scanLog>>

\* Variant: the zero value is returned with the error.
C6_ZeroOnError(readErr, file) == IF readErr THEN 0 ELSE file.LastBlock

\* Lines 327-337: -1 when the checkpoint cannot be loaded.
getPreviousRescanBlock(readErr, file) ==
  IF readErr THEN NoCheckpoint ELSE file.LastBlock

\* config.LoadRescanConf: whether reading lss_rescan.json can succeed (it
\* cannot when the file is absent) and whether it can fail.
LoadRescanConfErrors(file) == {~file.exists, TRUE}

\* Line 484.
TakesImportPath(force, new, sh) == force \/ new \/ sh = NoCheckpoint

\* Lines 475-489.
Deciding ==
  /\ Running /\ opc = "decide"
  /\ \E readErr \in LoadRescanConfErrors(checkpoint) :
       LET sh == getPreviousRescanBlock(readErr, checkpoint)
           imp == TakesImportPath(cfg.forceImportDesc, cfg.isNewWallet, sh)
       IN /\ startHeight' = sh
          /\ decision' = [made |-> TRUE, readErr |-> readErr, file |-> checkpoint]
          /\ opc' = IF imp THEN (IF cfg.forceImportDesc THEN "fcheck" ELSE "import")
                     ELSE "rcheck"
  /\ UNCHANGED <<nodeVars, checkpoint, cfg, IsPendingScan, wpc, importDone, interrupt, oerr,
                 wexit, rescanReq, ckWrites, pollsAfterSend, ia, lastStatus, driverVars, logVars>>

\* checkWalletSyncStatus: the flag takes the wallet's scan state.
checkWalletSyncStatus(flag, scanning) == scanning

\* Variant: the flag is not tested after the check, no abort is made.
C20_NoAbort(onScan, onIdle) ==
  /\ \E ok \in BOOLEAN :
       IF ok THEN /\ IsPendingScan' = checkWalletSyncStatus(IsPendingScan, nodeScanning)
                  /\ opc' = onIdle
                  /\ scanLog' = [scanLog EXCEPT
                                   !.check = IF nodeScanning THEN "scanning" ELSE "idle"]
                  /\ UNCHANGED <<oerr, interrupt>>
       ELSE /\ Fail("check")
            /\ scanLog' = [scanLog EXCEPT !.check = "err"]
            /\ UNCHANGED IsPendingScan
  /\ UNCHANGED <<nodeVars, checkpoint, cfg, wpc, startHeight, importDone,
                 wexit, decision, rescanReq, ckWrites, pollsAfterSend, ia, lastStatus,
                 driverVars, snapshot, audit>>

\* The call of checkWalletSyncStatus followed by the test of
\* b.IsPendingScan (lines 490-503 and 531-542).
CheckWalletSync(onScan, onIdle) ==
  /\ \E ok \in BOOLEAN :
       IF ok THEN /\ IsPendingScan' = checkWalletSyncStatus(IsPendingScan, nodeScanning)
                  /\ opc' = IF IsPendingScan' THEN onScan ELSE onIdle
                  /\ scanLog' = [scanLog EXCEPT
                                   !.check = IF nodeScanning THEN "scanning" ELSE "idle"]
                  /\ UNCHANGED <<oerr, interrupt>>
       ELSE /\ Fail("check")
            /\ scanLog' = [scanLog EXCEPT !.check = "err"]
            /\ UNCHANGED IsPendingScan
  /\ UNCHANGED <<nodeVars, checkpoint, cfg, wpc, startHeight, importDone,
                 wexit, decision, rescanReq, ckWrites, pollsAfterSend, ia, lastStatus,
                 driverVars, snapshot, audit>>

ForcedCheck == Running /\ opc = "fcheck" /\ CheckWalletSync("fabort", "import")

\* Variant: an abort that fails is logged and the import goes on.
C15_AbortNotFatal(err) ==
  /\ opc' = "import"
  /\ UNCHANGED <<oerr, interrupt>>

\* Lines 505-511 once AbortRescan has returned err.
AfterForcedAbort(err) ==
  IF err # NIL THEN Fail("abort")
  ELSE /\ opc' = "import"
       /\ UNCHANGED <<oerr, interrupt>>

\* Lines 503-511: AbortRescan on the forced path, its failure is fatal.
ForcedAbort ==
  /\ Running /\ opc = "fabort"
  /\ \E ok \in BOOLEAN :
       /\ nodeScanning' = IF ok THEN FALSE ELSE nodeScanning
       /\ scanLog' = [scanLog EXCEPT !.abort = IF ok THEN "ok" ELSE "err"]
       /\ AfterForcedAbort(IF ok THEN NIL ELSE "abort")
  /\ UNCHANGED <<watchOnly, blocks, headers, totalAmount, checkpoint, cfg,
                 IsPendingScan, wpc, startHeight, importDone, wexit, decision,
                 rescanReq, ckWrites, pollsAfterSend, ia, lastStatus, driverVars,
                 snapshot, audit>>

\* Variant: the flag is not set before the import.
C10_FlagNotSet ==
  /\ Running /\ opc = "import"
  /\ opc' = "importing"
  /\ UNCHANGED <<nodeVars, checkpoint, cfg, IsPendingScan, wpc, startHeight, importDone,
                 interrupt, oerr, wexit, decision, rescanReq, ckWrites, pollsAfterSend,
                 ia, lastStatus, driverVars, logVars>>

\* Line 515.
ImportBegin ==
  /\ Running /\ opc = "import"
  /\ IsPendingScan' = TRUE
  /\ opc' = "importing"
  /\ UNCHANGED <<nodeVars, checkpoint, cfg, wpc, startHeight, importDone, interrupt, oerr,
                 wexit, decision, rescanReq, ckWrites, pollsAfterSend, ia, lastStatus,
                 driverVars, logVars>>

\* Variant: the flag is not cleared after the import.
C19_ImportFlagLeft(frame) ==
  IF frame.err # NIL THEN Fail("import") /\ UNCHANGED IsPendingScan
  ELSE /\ opc' = "checkpoint"
       /\ UNCHANGED <<IsPendingScan, oerr, interrupt>>

\* Lines 517-527 once ImportAccounts has returned with frame.
AfterImport(frame) ==
  IF frame.err # NIL THEN Fail("import") /\ UNCHANGED IsPendingScan
  ELSE /\ IsPendingScan' = FALSE
       /\ opc' = "checkpoint"
       /\ UNCHANGED <<oerr, interrupt>>

\* The node's scan state as the logs record it.
ScanState(scanning) == IF scanning THEN "scanning" ELSE "idle"

\* Line 517: ImportAccounts runs up to its return or its bulk request.
ImportCall ==
  /\ Running /\ opc = "importing" /\ ia.pc = "idle"
  /\ \E fault \in Faults \ {[kind |-> "bulk", at |-> <<>>]} :
       LET frame == ImportAccountsEntry(cfg.Accounts, fault, watchOnly)
       IN /\ ia' = frame
          /\ IF frame.pc = "bulk"
               THEN /\ nodeScanning' = TRUE
                    /\ scanLog' = [scanLog EXCEPT !.atRequest = ScanState(nodeScanning)]
                    /\ UNCHANGED <<opc, oerr, interrupt, IsPendingScan>>
               ELSE AfterImport(frame) /\ UNCHANGED <<nodeScanning, scanLog>>
  /\ UNCHANGED <<watchOnly, blocks, headers, totalAmount, checkpoint, cfg, wpc,
                 startHeight, importDone, wexit, decision, rescanReq, ckWrites,
                 pollsAfterSend, lastStatus, driverVars, snapshot, audit>>

\* Line 324 then 517-527: the bulk import returns.
ImportReturn ==
  /\ Running /\ opc = "importing" /\ ia.pc = "bulk"
  /\ \E fault \in {NoFault, [kind |-> "bulk", at |-> <<>>]} :
       LET frame == ImportAccountsReturn(ia, fault)
       IN /\ ia' = frame
          /\ watchOnly' = NodeAfterImport(watchOnly, ia, fault)
          /\ nodeScanning' = FALSE
          /\ AfterImport(frame)
  /\ UNCHANGED <<blocks, headers, totalAmount, checkpoint, cfg, wpc, startHeight,
                 importDone, wexit, decision, rescanReq, ckWrites, pollsAfterSend,
                 lastStatus, driverVars, logVars>>

ResumeCheck == Running /\ opc = "rcheck" /\ CheckWalletSync("rabort", "rescan")

\* Lines 542-549: an abort that fails is logged.
ResumeAbort ==
  /\ Running /\ opc = "rabort"
  /\ \E ok \in BOOLEAN :
       /\ nodeScanning' = IF ok THEN FALSE ELSE nodeScanning
       /\ scanLog' = [scanLog EXCEPT !.abort = IF ok THEN "ok" ELSE "err"]
  /\ opc' = "rescan"
  /\ UNCHANGED <<watchOnly, blocks, headers, totalAmount, checkpoint, cfg,
                 IsPendingScan, wpc, startHeight, importDone, interrupt, oerr, wexit,
                 decision, rescanReq, ckWrites, pollsAfterSend, ia, lastStatus,
                 driverVars, snapshot, audit>>

\* Line 551 (src/unnamed/part_000 16-19): the error is dropped, the count
\* is then 0.
GetBlockCount(ok, tip) == IF ok THEN tip ELSE 0

\* rescanWallet: the flag is set before the blocking rescan request and
\* cleared after it.
rescanWalletEnter(flag) == TRUE
rescanWalletExit(flag) == FALSE

\* Lines 551-554: rescanWallet(startHeight, endHeight) sends its request.
RescanBegin ==
  /\ Running /\ opc = "rescan"
  /\ \E ok \in BOOLEAN :
       rescanReq' = Append(rescanReq, [start |-> startHeight,
                                       end |-> GetBlockCount(ok, blocks)])
  /\ IsPendingScan' = rescanWalletEnter(IsPendingScan)
  /\ nodeScanning' = TRUE
  /\ scanLog' = [scanLog EXCEPT !.atRequest = ScanState(nodeScanning)]
  /\ opc' = "rescanning"
  /\ UNCHANGED <<watchOnly, blocks, headers, totalAmount, checkpoint, cfg, wpc,
                 startHeight, importDone, interrupt, oerr, wexit, decision, ckWrites,
                 pollsAfterSend, ia, lastStatus, driverVars, snapshot, audit>>

\* Lines 554-562: rescanWallet returns.
RescanEnd ==
  /\ Running /\ opc = "rescanning"
  /\ IsPendingScan' = rescanWalletExit(IsPendingScan)
  /\ nodeScanning' = FALSE
  /\ \E ok \in BOOLEAN :
       IF ok THEN opc' = "checkpoint" /\ UNCHANGED <<oerr, interrupt>>
       ELSE Fail("rescan")
  /\ UNCHANGED <<watchOnly, blocks, headers, totalAmount, checkpoint, cfg, wpc,
                 startHeight, importDone, wexit, decision, rescanReq, ckWrites,
                 pollsAfterSend, ia, lastStatus, driverVars, logVars>>

\* Variant: a failed write of the checkpoint stops the worker.
C13_DumpFatal(err) ==
  IF err # NIL THEN Fail("dump")
  ELSE /\ opc' = "send"
       /\ UNCHANGED <<oerr, interrupt>>

\* Lines 566-573 once DumpLatestRescanTime has returned err: the error is
\* logged and the send is reached.
AfterDump(err) ==
  /\ oerr' = IF err # NIL THEN err ELSE oerr
  /\ opc' = "send"
  /\ UNCHANGED interrupt

\* Lines 565-571: DumpLatestRescanTime.
Checkpointing ==
  /\ Running /\ opc = "checkpoint"
  /\ \E ok \in BOOLEAN :
       /\ IF ok THEN /\ checkpoint' = [exists |-> TRUE, LastBlock |-> blocks]
                     /\ ckWrites' = ckWrites + 1
          ELSE UNCHANGED <<checkpoint, ckWrites>>
       /\ AfterDump(IF ok THEN NIL ELSE "dump")
  /\ UNCHANGED <<nodeVars, cfg, IsPendingScan, wpc, startHeight, importDone, wexit,
                 decision, rescanReq, pollsAfterSend, ia, lastStatus, driverVars,
                 logVars>>

\* Line 573 when importDone has been closed: the send panics.
SendOnClosed ==
  /\ opc = "send" /\ importDone.closed
  /\ opc' = "panicked"
  /\ UNCHANGED <<nodeVars, checkpoint, cfg, IsPendingScan, wpc, startHeight, importDone,
                 interrupt, oerr, wexit, decision, rescanReq, ckWrites, pollsAfterSend,
                 ia, lastStatus, driverVars, logVars>>

\* --------------------------------------------------- Worker: the watchdog
\* Variant: a failed orchestrator signals completion too.
C8_FailureSignals == opc \in {"send", "failed"} /\ ~importDone.closed

\* Variant: the select never finds the receive case ready.
C9_NeverReady == FALSE

\* Line 586: the receive case of the select is ready when the orchestrator
\* is blocked in its send.
ReceiveReady == opc = "send" /\ ~importDone.closed

\* Variant: the watchdog takes the signal and goes on polling.
C18_NoReturn ==
  /\ Running /\ wpc = "select"
  /\ IF ReceiveReady
       THEN /\ importDone' = [importDone EXCEPT !.sent = importDone.sent + 1]
            /\ opc' = IF opc = "send" THEN "done" ELSE opc
            /\ wpc' = "poll"
            /\ UNCHANGED wexit
       ELSE /\ wpc' = "poll"
            /\ UNCHANGED <<importDone, opc, wexit>>
  /\ UNCHANGED <<nodeVars, checkpoint, cfg, IsPendingScan, startHeight, interrupt, oerr,
                 decision, rescanReq, ckWrites, pollsAfterSend, ia, lastStatus,
                 driverVars, logVars>>

\* Lines 585-591 and 577-583: the select receives the completion signal and
\* the watchdog returns, closing importDone; or it takes the default case.
WatchdogSelect ==
  /\ Running /\ wpc = "select"
  /\ IF ReceiveReady
       THEN /\ importDone' = [closed |-> TRUE, sent |-> importDone.sent + 1]
            /\ opc' = IF opc = "send" THEN "done" ELSE opc
            /\ wpc' = "done"
            /\ wexit' = "signal"
       ELSE /\ wpc' = "poll"
            /\ UNCHANGED <<importDone, opc, wexit>>
  /\ UNCHANGED <<nodeVars, checkpoint, cfg, IsPendingScan, startHeight, interrupt, oerr,
                 decision, rescanReq, ckWrites, pollsAfterSend, ia, lastStatus,
                 driverVars, logVars>>

\* Lines 591-601 and 577-583: sleep, then getImportProgress (lines
\* 251-271); a failed poll interrupts and the watchdog returns, closing
\* importDone.
WatchdogPoll ==
  /\ Running /\ wpc = "poll"
  /\ pollsAfterSend' = IF opc = "send" THEN pollsAfterSend + 1 ELSE pollsAfterSend
  /\ \E ok \in BOOLEAN :
       IF ok THEN /\ wpc' = "select"
                  /\ UNCHANGED <<importDone, interrupt, wexit>>
       ELSE /\ interrupt' = sendInterruptSignal(interrupt)
            /\ importDone' = [importDone EXCEPT !.closed = TRUE]
            /\ wpc' = "done"
            /\ wexit' = "poll"
  /\ UNCHANGED <<nodeVars, checkpoint, cfg, IsPendingScan, opc, startHeight, oerr,
                 decision, rescanReq, ckWrites, ia, lastStatus, driverVars, logVars>>

\* ------------------------------------- ImportAccounts called on its own
\* A caller other than the worker calls ImportAccounts with the configured
\* accounts, one call after the other.
CallSummary(frame) ==
  [pc |-> frame.pc, accounts |-> frame.accounts, err |-> frame.err, bulk |-> frame.bulk]

DriverCall ==
  /\ ia.pc \in {"idle", "ret"} /\ nCalls < MaxCalls
  /\ \E fault \in Faults \ {[kind |-> "bulk", at |-> <<>>]} :
       ia' = ImportAccountsEntry(cfg.Accounts, fault, watchOnly)
  /\ prevCall' = CallSummary(ia)
  /\ nCalls' = nCalls + 1
  /\ nodeScanning' = (nodeScanning \/ ia'.pc = "bulk")
  /\ UNCHANGED <<watchOnly, blocks, headers, totalAmount, checkpoint, cfg,
                 IsPendingScan, workerVars, lastStatus, logVars>>

DriverReturn ==
  /\ ia.pc = "bulk"
  /\ \E fault \in {NoFault, [kind |-> "bulk", at |-> <<>>]} :
       /\ ia' = ImportAccountsReturn(ia, fault)
       /\ watchOnly' = NodeAfterImport(watchOnly, ia, fault)
  /\ nodeScanning' = FALSE
  /\ UNCHANGED <<blocks, headers, totalAmount, checkpoint, cfg, IsPendingScan,
                 workerVars, lastStatus,
                 driverVars, logVars>>

\* ---------------------------------------------------------- specifications
\* The worker, the node and status queries arriving at any time.
Next ==
  \/ NodeAdvance \/ ScanStops \/ GetStatusCall
  \/ WaitForIBD \/ AuditBegin \/ AuditEnd \/ Deciding
  \/ ForcedCheck \/ ForcedAbort \/ ImportBegin \/ ImportCall \/ ImportReturn
  \/ ResumeCheck \/ ResumeAbort \/ RescanBegin \/ RescanEnd
  \/ Checkpointing \/ SendOnClosed
  \/ WatchdogSelect \/ WatchdogPoll

Spec == Init /\ [][Next]_vars

\* ImportAccounts called repeatedly against one node.
InitImport ==
  /\ InitProgram
  /\ nodeScanning = FALSE /\ headers = MaxHeight /\ blocks = MaxHeight
  /\ totalAmount = Issued(headers)
  /\ checkpoint = [exists |-> FALSE, LastBlock |-> 0]
  /\ watchOnly \in SUBSET PoolAddresses
  /\ cfg \in [circulationCheck : {FALSE}, forceImportDesc : {FALSE},
               isNewWallet : {FALSE}, Accounts : AccountLists]

NextImport == DriverCall \/ DriverReturn

SpecImport == InitImport /\ [][NextImport]_vars

\* The worker and the node under the Go scheduler: a goroutine that can
\* run does run, so the watchdog's select and its poll (a sleep of 7 s and
\* one request) are taken in the end, and so is every step of the
\* orchestrator.
WorkerStep ==
  \/ WaitForIBD \/ AuditBegin \/ AuditEnd \/ Deciding
  \/ ForcedCheck \/ ForcedAbort \/ ImportBegin \/ ImportCall \/ ImportReturn
  \/ ResumeCheck \/ ResumeAbort \/ RescanBegin \/ RescanEnd
  \/ Checkpointing \/ SendOnClosed

NextLive == NodeAdvance \/ ScanStops \/ WorkerStep \/ WatchdogSelect \/ WatchdogPoll

SpecLive ==
  /\ Init /\ [][NextLive]_vars
  /\ WF_vars(WatchdogSelect) /\ WF_vars(WatchdogPoll) /\ WF_vars(WorkerStep)

\* The tips the audit is run at: the first blocks, the middle and the last
\* blocks of every epoch up to MaxEpochs halvings.
EpochOffsets == {0, 1, 2, halvingBlocks \div 2, halvingBlocks - 2, halvingBlocks - 1}
AuditHeights == {e * halvingBlocks + d : e \in 0..MaxEpochs, d \in EpochOffsets}

\* The worker started with the circulation check on a synced node.
InitAudit ==
  /\ InitProgram
  /\ nodeScanning = FALSE /\ watchOnly = {}
  /\ headers \in AuditHeights /\ blocks = headers
  /\ totalAmount \in TotalAmounts(headers)
  /\ checkpoint = [exists |-> FALSE, LastBlock |-> 0]
  /\ cfg \in [circulationCheck : {TRUE}, forceImportDesc : {FALSE},
               isNewWallet : {FALSE}, Accounts : {NilAccounts}]

NextAudit == WaitForIBD \/ AuditBegin \/ AuditEnd

SpecAudit == InitAudit /\ [][NextAudit]_vars

\* ================================================================ claims

C2_StatusValue ==
  (lastStatus.called /\ ~lastStatus.flag) =>
    LET o == lastStatus.out
        plain(st) == /\ o.Status = st
                     /\ o.SyncProgress = NilPtr
                     /\ o.ScanProgress = NilPtr
    IN IF o.err \in {"client", "rpc", "decode"} THEN plain("NodeDisconnected")
       ELSE IF o.info.Blocks # o.info.Headers
         THEN /\ o.Status = "Syncing"
              /\ o.SyncProgress = Ptr(o.info.VerificationProgress * 100)
              /\ o.ScanProgress = NilPtr
       ELSE IF o.err = "wallet" THEN plain("NodeDisconnected")
       ELSE IF o.scan.scanning
         THEN /\ o.Status = "Scanning"
              /\ o.ScanProgress = Ptr(o.scan.Progress * 100)
              /\ o.SyncProgress = NilPtr
       ELSE plain("Ready")

\* A call that found the node catching up and reported Syncing.
C2_Witness ==
  /\ lastStatus.called /\ ~lastStatus.flag
  /\ lastStatus.out.Status = "Syncing"
  /\ lastStatus.out.info.Blocks < lastStatus.out.info.Headers
  /\ lastStatus.out.SyncProgress.val > 100

\* The node answered every address lookup of the call with IsWatchOnly.
AllReportedWatchOnly(frame) ==
  /\ frame.filtered
  /\ Len(frame.reports) = Len(frame.all)
  /\ \A i \in 1..Len(frame.reports) : frame.reports[i]

\* C3: after a first ImportAccounts call returned success, a second call
\* with the same accounts, to which the node reports every derived address
\* as watch-only, issues no bulk import and returns success.
C3_Idempotent ==
  (/\ nCalls >= 2
   /\ prevCall.pc = "ret" /\ prevCall.err = NIL
   /\ prevCall.accounts = ia.accounts
   /\ AllReportedWatchOnly(ia)) =>
    /\ ia.bulk = 0
    /\ ia.pc = "ret"
    /\ ia.err = NIL

\* A second call on accounts whose descriptors the first call imported.
C3_Witness ==
  /\ nCalls = 2
  /\ prevCall.pc = "ret" /\ prevCall.err = NIL /\ prevCall.bulk = 1
  /\ prevCall.accounts = ia.accounts
  /\ Len(ia.all) >= 2
  /\ AllReportedWatchOnly(ia)
  /\ ia.bulk = 0 /\ ia.pc = "ret" /\ ia.err = NIL

\* The descriptors of the configured accounts, in order.
ConfiguredDescriptors(accounts) == ResolveAll(accounts.items, {}, <<>>, 0).all
NotWatched(d) == DeriveAddress(d.Value, d.Depth) \notin watchOnly

\* C4: a call in which a resolution, a derivation or an address lookup
\* failed returns that error without a bulk import; a call issues at most
\* one bulk import, and it holds exactly the configured descriptors whose
\* address is not watch-only yet.
C4_NoPartialImport ==
  /\ ia.bulk <= 1
  /\ ia.err \in {"ErrInvalidDescriptor", "ErrDeriveAddress", "ErrAddressInfo"} =>
       ia.pc = "ret" /\ ia.bulk = 0
  /\ ia.pc = "bulk" =>
       /\ ia.bulk = 1 /\ ia.err = NIL
       /\ ia.toImport = SelectSeq(ConfiguredDescriptors(ia.accounts), NotWatched)
  /\ (ia.pc = "ret" /\ ia.bulk = 1) => ia.all = ConfiguredDescriptors(ia.accounts)

\* A bulk import in flight that leaves out an already watched descriptor.
C4_Witness ==
  /\ ia.pc = "bulk"
  /\ Len(ia.accounts.items) = 2
  /\ Len(ia.toImport) > 0
  /\ Len(ia.toImport) < Len(ia.all)

\* C5: ImportAccounts called with a nil or an empty account list returns
\* success without constructing a client and without a node call.
C5_EmptyIsNoOp ==
  (ia.pc # "idle" /\ (ia.accounts.isNil \/ Len(ia.accounts.items) = 0)) =>
    /\ ia.pc = "ret" /\ ia.err = NIL
    /\ ia.clients = 0 /\ ia.nodeCalls = 0

\* The import condition of the Deciding phase, from what it read.
ImportCondition ==
  \/ cfg.forceImportDesc
  \/ cfg.isNewWallet
  \/ decision.readErr
  \/ decision.file.LastBlock = NoCheckpoint

ImportingPcs == {"fcheck", "fabort", "import", "importing"}
ResumingPcs == {"rcheck", "rabort", "rescan", "rescanning"}

\* C6: the worker is on the Importing path exactly when the forced-import
\* flag is set, the wallet is new, or no checkpoint exists (failed read or
\* -1); otherwise it is on the Resuming path; no rescan starts at -1.
C6_DecidingPath ==
  /\ opc \in ImportingPcs => decision.made /\ ImportCondition
  /\ opc \in ResumingPcs => decision.made /\ ~ImportCondition
  /\ \A i \in 1..Len(rescanReq) : rescanReq[i].start # NoCheckpoint
  /\ (Len(rescanReq) > 0 \/ ia.pc # "idle") => decision.made
  /\ Len(rescanReq) > 0 => ~ImportCondition /\ ia.pc = "idle"
  /\ ia.pc # "idle" => ImportCondition

\* An absent checkpoint alone routes the worker to the import.
C6_Witness ==
  /\ opc = "import"
  /\ ~cfg.forceImportDesc /\ ~cfg.isNewWallet
  /\ decision.readErr /\ ~decision.file.exists

\* C7: when the orchestrator has stopped on an error, or the watchdog has
\* stopped on a failed poll, the interrupt signal has been sent.
C7_FatalInterrupts ==
  /\ opc = "failed" =>
       interrupt /\ oerr \in {"ibd", "audit", "check", "abort", "import", "rescan"}
  /\ wexit = "poll" => interrupt /\ wpc = "done"

\* The orchestrator stopped on a failed rescan.
C7_Witness == opc = "failed" /\ oerr = "rescan" /\ interrupt /\ wexit = NIL

\* C8 as stated: whenever the orchestrator has ended, by success or by
\* failure, the completion signal has been fired exactly once.
C8_FiredOnEveryExit ==
  opc \in {"failed", "done", "panicked"} => importDone.sent = 1

\* C8 as the code has it: the signal is fired at most once, exactly once
\* when the orchestrator ends by success, and never when it ends on a
\* failure path or when its send finds importDone closed.
C8_FiredOnSuccessOnly ==
  /\ importDone.sent <= 1
  /\ importDone.sent = 1 <=> opc = "done"
  /\ opc \in {"failed", "panicked"} => importDone.sent = 0

\* The orchestrator has ended by success, the signal delivered.
C8_Witness == opc = "done" /\ importDone.sent = 1 /\ wexit = "signal"

\* C9 as stated: once the orchestrator is at its completion send, the
\* watchdog makes no further progress poll.
C9_NoPollAfterSend == pollsAfterSend = 0

\* C9 as the code has it: the watchdog makes at most one progress poll
\* after the orchestrator reached its send (the one its select had
\* already chosen), and has returned once the signal is received.
C9_AtMostOnePoll ==
  /\ pollsAfterSend <= 1
  /\ importDone.sent = 1 => wpc = "done" /\ wexit = "signal"

\* The signal was received after one more poll.
C9_Witness == pollsAfterSend = 1 /\ importDone.sent = 1 /\ wpc = "done"

\* A blocking scan-inducing request of the worker is in flight.
AuditInFlight == opc = "auditing"
ImportInFlight == opc = "importing" /\ ia.pc = "bulk"
RescanInFlight == opc = "rescanning"

\* What GetStatus would answer in the current state.
StatusNow ==
  {GetStatus(IsPendingScan, fault,
             [Blocks |-> blocks, Headers |-> headers,
              VerificationProgress |-> VerificationProgress(blocks, headers)],
             scan).Status : fault \in StatusFaults, scan \in WalletScanStates}

C11_ClearedOnEveryOutcome ==
  cfg.circulationCheck =>
    /\ opc = "auditing" => IsPendingScan
    /\ (opc = "decide" \/ (opc = "failed" /\ oerr = "audit")) => ~IsPendingScan

\* C11 as the code has it: the flag is set while the audit runs; it is
\* cleared when the audit returned normally, the supplies matching or
\* not, and it is left set when the audit returned an error, the worker
\* stopping there with the interrupt sent.
C11_ClearedOnReturn ==
  cfg.circulationCheck =>
    /\ opc = "auditing" => IsPendingScan
    /\ opc = "decide" => audit.logged /\ ~IsPendingScan
    /\ (opc = "failed" /\ oerr = "audit") =>
         ~audit.logged /\ IsPendingScan /\ interrupt

\* The audit returned normally on a supply the node does not confirm, and
\* the flag is cleared.
C11_Witness ==
  /\ cfg.circulationCheck /\ opc = "decide"
  /\ audit.logged /\ audit.expectedSupply # audit.actualSupply
  /\ ~IsPendingScan

\* C12: the supply the audit expects at tip height h is 210000 x 50 / 2^k
\* summed over the completed epochs k plus (h mod 210000) blocks at the
\* subsidy of the running epoch: 0 at height 0, 10,500,000 at 210,000,
\* 15,750,000 at 420,000, each block adding 50 / 2^(its epoch); the audit
\* fails on a failed gettxoutsetinfo only, never on a supply that differs
\* from the node's total.
C12_ExpectedSupply ==
  /\ audit.logged =>
       /\ audit.height = blocks
       /\ audit.actualSupply = totalAmount
       /\ audit.expectedSupply = Issued(audit.height)
       /\ audit.height = 0 => audit.expectedSupply = 0
       /\ audit.height = 210000 => audit.expectedSupply = 10500000 * CoinUnit
       /\ audit.height = 420000 => audit.expectedSupply = 15750000 * CoinUnit
       /\ expectedSupply(audit.height + 1) - audit.expectedSupply
            = (50 * CoinUnit) \div (2 ^ (audit.height \div 210000))
       /\ audit.err = NIL /\ opc = "decide" /\ oerr = NIL /\ ~interrupt
  /\ (opc = "failed" /\ oerr = "audit") => ~audit.logged /\ audit.err = "rpc"
  /\ audit.err # NIL => opc = "failed" /\ oerr = "audit"

\* The audit at height 420,000 expected 15,750,000 coins, the node
\* reported another total, and the worker went on.
C12_Witness ==
  /\ audit.logged /\ audit.height = 420000
  /\ audit.expectedSupply = 15750000 * CoinUnit
  /\ audit.actualSupply # audit.expectedSupply
  /\ opc = "decide" /\ oerr = NIL

\* The import or the range rescan of this run has returned success.
ScanPhaseSucceeded ==
  \/ ia.pc = "ret" /\ ia.err = NIL /\ rescanReq = <<>>
  \/ Len(rescanReq) = 1 /\ ia.pc = "idle" /\ oerr # "rescan"

\* A step that writes the checkpoint file.
CheckpointWritten == checkpoint' # checkpoint \/ ckWrites' # ckWrites

\* C13: the checkpoint is written at most once in a run, by the
\* Checkpointing step that follows a successful import or range rescan,
\* and holds the tip height then; a run that fails leaves the file as it
\* was; a failed write is logged only: the orchestrator goes on to its
\* completion send, raises no interrupt, and the signal is delivered
\* unless the watchdog has stopped on a failed poll.
C13_CheckpointOnSuccess ==
  /\ [](/\ ckWrites <= 1
        /\ opc = "failed" => ckWrites = 0
        /\ (decision.made /\ ckWrites = 0) => checkpoint = decision.file
        /\ ckWrites = 1 =>
             /\ opc \in {"send", "done", "panicked"} /\ oerr = NIL
             /\ ScanPhaseSucceeded
             /\ checkpoint = [exists |-> TRUE, LastBlock |-> blocks]
        /\ oerr = "dump" =>
             /\ ckWrites = 0 /\ ScanPhaseSucceeded
             /\ opc \in {"send", "done", "panicked"}
             /\ wexit # "poll" => ~interrupt /\ opc # "panicked"
             /\ opc = "done" <=> importDone.sent = 1)
  /\ [][/\ CheckpointWritten =>
            /\ opc = "checkpoint" /\ opc' = "send"
            /\ ckWrites = 0 /\ ckWrites' = 1
            /\ ScanPhaseSucceeded
       /\ (opc = "checkpoint" /\ opc' # opc) =>
            opc' = "send" /\ interrupt' = interrupt]_vars

\* The write of the checkpoint failed after a successful rescan, and the
\* completion signal was delivered with no interrupt raised.
C13_Witness ==
  /\ oerr = "dump" /\ ckWrites = 0 /\ Len(rescanReq) = 1
  /\ opc = "done" /\ importDone.sent = 1 /\ ~interrupt

\* Nothing of the later phases has been started.
NothingIssued ==
  /\ ~IsPendingScan /\ ~audit.logged /\ audit.err = NIL
  /\ ~decision.made /\ scanLog = NoScanLog
  /\ ia.pc = "idle" /\ rescanReq = <<>> /\ ckWrites = 0

\* C14: the worker is past WaitingIBD only when its latest chain snapshot
\* had blocks = headers; as long as the snapshots have blocks # headers
\* it stays in WaitingIBD, where another poll is always possible and
\* nothing of the later phases has been started; a snapshot request that
\* fails or cannot be decoded stops the worker with the interrupt sent.
C14_LeavesOnEqual ==
  /\ opc = "ibd" => snapshot \in {"none", "behind"} /\ NothingIssued
  /\ opc = "ibd" => ENABLED WaitForIBD
  /\ snapshot \in {"none", "behind"} => opc = "ibd"
  /\ snapshot \in {"rpc", "decode"} =>
       opc = "failed" /\ oerr = "ibd" /\ interrupt /\ NothingIssued
  /\ (opc # "ibd" /\ ~(opc = "failed" /\ oerr = "ibd")) =>
       snapshot = "equal" /\ blocks = headers

\* The worker has seen the node behind and is still waiting although the
\* node has caught up since.
C14_Witness ==
  /\ opc = "ibd" /\ snapshot = "behind" /\ blocks = headers
  /\ lastStatus.called

\* A bulk import has been issued in this run.
ImportIssued == ia.pc # "idle" \/ opc \in {"import", "importing"}

\* C15: with the forced-import flag set the import is reached only after
\* a scan check that succeeded and, when the check found a scan running,
\* after an abort that succeeded; a failed check or a failed abort stops
\* the worker with the interrupt sent and no import issued.
C15_ForcedChecksFirst ==
  cfg.forceImportDesc =>
    /\ ImportIssued =>
         \/ scanLog.check = "idle" /\ scanLog.abort = "none"
         \/ scanLog.check = "scanning" /\ scanLog.abort = "ok"
    /\ scanLog.abort # "none" => scanLog.check = "scanning"
    /\ scanLog.check = "err" =>
         /\ opc = "failed" /\ oerr = "check" /\ interrupt
         /\ scanLog.abort = "none" /\ ~ImportIssued
    /\ scanLog.abort = "err" =>
         opc = "failed" /\ oerr = "abort" /\ interrupt /\ ~ImportIssued
    /\ rescanReq = <<>>

\* A forced import whose bulk request followed the abort of a running scan.
C15_Witness ==
  /\ cfg.forceImportDesc /\ ia.pc = "bulk"
  /\ scanLog.check = "scanning" /\ scanLog.abort = "ok"

\* C16: on the Resuming path, after the scan check and the abort of a
\* running scan (a failed abort does not stop the worker), exactly one
\* range rescan is issued, from the checkpoint's LastBlock to the node's
\* tip height; a failed rescan stops the worker with the interrupt sent.
C16_RescanToTip ==
  /\ Len(rescanReq) <= 1
  /\ opc \in {"rescanning", "checkpoint"} /\ ia.pc = "idle" => Len(rescanReq) = 1
  /\ Len(rescanReq) = 1 =>
       /\ scanLog.check \in {"idle", "scanning"}
       /\ scanLog.check = "scanning" <=> scanLog.abort # "none"
       /\ rescanReq[1].start = decision.file.LastBlock
       /\ rescanReq[1].end = blocks
  /\ oerr = "rescan" => opc = "failed" /\ interrupt

\* C17: the orchestrator never sends on importDone once the watchdog has
\* closed it: no send-on-closed-channel panic.
C17_NoSendOnClosed ==
  /\ ~(opc = "send" /\ importDone.closed)
  /\ opc # "panicked"

\* C18: once the orchestrator is at its completion send, either the
\* signal is received, the watchdog returns and importDone is closed, or
\* a watchdog poll has failed; importDone is closed by the watchdog's
\* return and by nothing else, and the watchdog returns only on the
\* received signal or on a failed poll.
C18_BothTerminate ==
  /\ (opc = "send") ~>
       \/ /\ opc = "done" /\ wpc = "done" /\ wexit = "signal"
          /\ importDone.closed /\ importDone.sent = 1
       \/ wexit = "poll"
  /\ [](/\ importDone.closed <=> wpc = "done"
        /\ wpc = "done" <=> wexit \in {"signal", "poll"}
        /\ wexit = "signal" => importDone.sent = 1 /\ opc = "done"
        /\ wexit = "poll" => importDone.sent = 0 /\ interrupt)
  /\ [][importDone.closed => importDone'.closed /\ wpc' = "done"]_vars

\* Both goroutines have returned after the signal, no poll having failed.
C18_Witness ==
  /\ opc = "done" /\ wpc = "done" /\ wexit = "signal"
  /\ importDone.closed /\ importDone.sent = 1 /\ ~interrupt

C20_NeverScanOnScan == scanLog.atRequest # "scanning"

\* C20 as the code has it: a forced import is issued on a node without a
\* running scan; a request issued on top of a running scan is either the
\* import of a new wallet or of a run without checkpoint, before which
\* no check is made, or the rescan of the Resuming path after a failed
\* abort.
C20_ForcedNeverScanOnScan ==
  /\ (cfg.forceImportDesc /\ scanLog.atRequest # "none") =>
       scanLog.atRequest = "idle"
  /\ scanLog.atRequest = "scanning" =>
       \/ /\ ia.pc # "idle" /\ ~cfg.forceImportDesc
          /\ scanLog.check = "none" /\ scanLog.abort = "none"
       \/ /\ Len(rescanReq) = 1
          /\ scanLog.check = "scanning" /\ scanLog.abort = "err"
  /\ (scanLog.atRequest # "none" /\ scanLog.abort = "ok") =>
       scanLog.atRequest = "idle"

\* A forced import issued after the running scan was aborted, the node
\* scanning for the import alone.
C20_Witness ==
  /\ cfg.forceImportDesc /\ opc = "importing" /\ ia.pc = "bulk"
  /\ scanLog = [check |-> "scanning", abort |-> "ok", atRequest |-> "idle"]
  /\ nodeScanning

====
